---- MODULE Spec2Model ----
(***************************************************************************)
(* A model of the CP4 book problem scraper                                 *)
(* (src/src/data/parse_book_problems.py): the description parser and its   *)
(* digit scan, the row classifier, the table-to-mapping parser, the        *)
(* chapter loop with its requests, the judge merge, the name normalizer    *)
(* and the chapter/section renamer with its chapter-9 rename loop.         *)
(*                                                                         *)
(* Python strings are sequences of one-character strings (a character      *)
(* beyond U+00FF is the string "U+" and its code point); a dict is a       *)
(* function whose DOMAIN is its key set, and where the code depends on a   *)
(* dict's iteration order the dict is a sequence of <<key, value>> pairs.  *)
(***************************************************************************)
EXTENDS Integers, Sequences, FiniteSets, TLC

VARIABLES
    component,        \* which function of the module is being exercised
    pc,               \* "ready" before the function is applied, then
                      \* "done" (and "filed" once a parsed row is stored)
    desc_str,         \* parse_problem_description: its argument
    parsed,           \* parse_problem_description: its outcome
    s,                \* validify: its argument
    valid,            \* validify: its outcome
    tag,              \* is_starred: the attrs of its argument
    starred,          \* is_starred: its result
    rows,             \* parse_all_problems: the rows processed so far
    problems,         \* parse_all_problems: its dict problems
    rowStatus,        \* parse_all_problems: "running", "returned", or the
                      \* way the call ended without returning
    uva_problems,     \* get_book_json: the uva mapping of the chapter
    kattis_problems,  \* get_book_json: the kattis mapping of the chapter
    chapter_json,     \* get_book_json: book_problem_json[chapter_str]
    todo,             \* get_book_json: the sections the for loop of line
                      \* 270 has still to visit
    mergeStatus,      \* get_book_json: "parsing", "merging", "merged", or
                      \* "KeyError"
    section_root,     \* get_formatted_problem_info: its argument
    output,           \* get_formatted_problem_info: its result
    book_json,        \* reformat_book_json: its argument, as the call
                      \* leaves it
    reformatted,      \* reformat_book_json: its outcome
    scan_i,           \* parse_problem_description: the counter i of the
                      \* while loop of lines 50-52
    chapter_num,      \* get_book_json: the loop variable chapter
    fetched,          \* get_book_json: the requests issued so far, each
                      \* with its response, in the order they were issued
    uva_html,         \* get_book_json: the uva page of the chapter
    kattis_html,      \* get_book_json: the kattis page of the chapter
    book_problem_json,\* get_book_json: the tree built so far
    runStatus,        \* get_book_json: "running", "returned", or the
                      \* exception that ended the call
    ch9_table,        \* reformat_book_json: chapter_info['ch9']['sections']
    ch9_sections,     \* reformat_book_json: book_json['ch9']['9.']
    ch9_renamed       \* reformat_book_json: book_json['ch9'] after the
                      \* loop of lines 215-218

parseVars == <<desc_str, parsed>>
validifyVars == <<s, valid>>
starredVars == <<tag, starred>>
rowsVars == <<rows, problems, rowStatus>>
mergeVars ==
    <<uva_problems, kattis_problems, chapter_json, todo, mergeStatus>>

formatVars == <<section_root, output>>
reformatVars == <<book_json, reformatted>>
scanVars == <<scan_i>>
fetchVars ==
    <<chapter_num, fetched, uva_html, kattis_html, book_problem_json,
      runStatus>>

renameVars == <<ch9_table, ch9_sections, ch9_renamed>>

vars ==
    <<component, pc, parseVars, validifyVars, starredVars, rowsVars,
      mergeVars, formatVars, reformatVars, scanVars, fetchVars, renameVars>>

\* The values of the variables of a function that is not being exercised.
IdleParse == desc_str = <<>> /\ parsed = [status |-> "none"]
IdleValidify == s = <<>> /\ valid = <<>>
IdleStarred == tag = <<>> /\ starred = FALSE
IdleRows == rows = <<>> /\ problems = <<>> /\ rowStatus = "idle"
IdleMerge ==
    /\ uva_problems = <<>> /\ kattis_problems = <<>> /\ chapter_json = <<>>
    /\ todo = {} /\ mergeStatus = "idle"
IdleFormat == section_root = <<>> /\ output = <<>>
IdleReformat == book_json = <<>> /\ reformatted = [status |-> "none"]
IdleScan == scan_i = 0
IdleFetch ==
    /\ chapter_num = 0 /\ fetched = <<>> /\ uva_html = <<>>
    /\ kattis_html = <<>> /\ book_problem_json = <<>> /\ runStatus = "idle"
IdleRename ==
    /\ ch9_table = <<>> /\ ch9_sections = <<>>
    /\ ch9_renamed = [status |-> "none"]

----------------------------------------------------------------------------
(* Bounds of the inputs.                                                   *)

\* Longest locator (the text before the first comma) of a description.
MaxLocator == 4
\* Longest text after the first comma of a description.
MaxTitle == 3
\* Longest argument of validify.
MaxLabel == 3
\* Longest class list of a row.
MaxClasses == 3
\* Most rows of a problem table.
MaxRows == 3
\* Most rows of each judge's table of the merged chapter.
MaxJudgeRows == 2
\* Most subsections of the argument of get_formatted_problem_info.
MaxSubsections == 2

----------------------------------------------------------------------------
(* Python's str operations.                                                *)

\* All sequences over alphabet A of length at most n.
StringsUpTo(A, n) == UNION {[1..k -> A] : k \in 0..n}

Min(a, b) == IF a < b THEN a ELSE b

\* c in s, for a one-character c.
Contains(str, c) == \E k \in 1..Len(str) : str[k] = c

\* str[:i] for i >= 0.
Prefix(str, i) == SubSeq(str, 1, Min(i, Len(str)))

\* str[i:] for i >= 0.
Suffix(str, i) == SubSeq(str, Min(i, Len(str)) + 1, Len(str))

\* The characters c with c.isdigit(): the decimal digits of every script
\* and the other characters of Unicode with the property Digit (superscripts,
\* circled digits, ...).  A character beyond U+00FF is written "U+" and
\* its code point in hexadecimal.
Digits == {
    "0", "1", "2", "3", "4", "5", "6", "7", "8", "9", "²", "³", "¹",
    "U+0660", "U+0661", "U+0662", "U+0663", "U+0664", "U+0665", "U+0666",
    "U+0667", "U+0668", "U+0669", "U+06F0", "U+06F1", "U+06F2", "U+06F3",
    "U+06F4", "U+06F5", "U+06F6", "U+06F7", "U+06F8", "U+06F9", "U+07C0",
    "U+07C1", "U+07C2", "U+07C3", "U+07C4", "U+07C5", "U+07C6", "U+07C7",
    "U+07C8", "U+07C9", "U+0966", "U+0967", "U+0968", "U+0969", "U+096A",
    "U+096B", "U+096C", "U+096D", "U+096E", "U+096F", "U+09E6", "U+09E7",
    "U+09E8", "U+09E9", "U+09EA", "U+09EB", "U+09EC", "U+09ED", "U+09EE",
    "U+09EF", "U+0A66", "U+0A67", "U+0A68", "U+0A69", "U+0A6A", "U+0A6B",
    "U+0A6C", "U+0A6D", "U+0A6E", "U+0A6F", "U+0AE6", "U+0AE7", "U+0AE8",
    "U+0AE9", "U+0AEA", "U+0AEB", "U+0AEC", "U+0AED", "U+0AEE", "U+0AEF",
    "U+0B66", "U+0B67", "U+0B68", "U+0B69", "U+0B6A", "U+0B6B", "U+0B6C",
    "U+0B6D", "U+0B6E", "U+0B6F", "U+0BE6", "U+0BE7", "U+0BE8", "U+0BE9",
    "U+0BEA", "U+0BEB", "U+0BEC", "U+0BED", "U+0BEE", "U+0BEF", "U+0C66",
    "U+0C67", "U+0C68", "U+0C69", "U+0C6A", "U+0C6B", "U+0C6C", "U+0C6D",
    "U+0C6E", "U+0C6F", "U+0CE6", "U+0CE7", "U+0CE8", "U+0CE9", "U+0CEA",
    "U+0CEB", "U+0CEC", "U+0CED", "U+0CEE", "U+0CEF", "U+0D66", "U+0D67",
    "U+0D68", "U+0D69", "U+0D6A", "U+0D6B", "U+0D6C", "U+0D6D", "U+0D6E",
    "U+0D6F", "U+0DE6", "U+0DE7", "U+0DE8", "U+0DE9", "U+0DEA", "U+0DEB",
    "U+0DEC", "U+0DED", "U+0DEE", "U+0DEF", "U+0E50", "U+0E51", "U+0E52",
    "U+0E53", "U+0E54", "U+0E55", "U+0E56", "U+0E57", "U+0E58", "U+0E59",
    "U+0ED0", "U+0ED1", "U+0ED2", "U+0ED3", "U+0ED4", "U+0ED5", "U+0ED6",
    "U+0ED7", "U+0ED8", "U+0ED9", "U+0F20", "U+0F21", "U+0F22", "U+0F23",
    "U+0F24", "U+0F25", "U+0F26", "U+0F27", "U+0F28", "U+0F29", "U+1040",
    "U+1041", "U+1042", "U+1043", "U+1044", "U+1045", "U+1046", "U+1047",
    "U+1048", "U+1049", "U+1090", "U+1091", "U+1092", "U+1093", "U+1094",
    "U+1095", "U+1096", "U+1097", "U+1098", "U+1099", "U+1369", "U+136A",
    "U+136B", "U+136C", "U+136D", "U+136E", "U+136F", "U+1370", "U+1371",
    "U+17E0", "U+17E1", "U+17E2", "U+17E3", "U+17E4", "U+17E5", "U+17E6",
    "U+17E7", "U+17E8", "U+17E9", "U+1810", "U+1811", "U+1812", "U+1813",
    "U+1814", "U+1815", "U+1816", "U+1817", "U+1818", "U+1819", "U+1946",
    "U+1947", "U+1948", "U+1949", "U+194A", "U+194B", "U+194C", "U+194D",
    "U+194E", "U+194F", "U+19D0", "U+19D1", "U+19D2", "U+19D3", "U+19D4",
    "U+19D5", "U+19D6", "U+19D7", "U+19D8", "U+19D9", "U+19DA", "U+1A80",
    "U+1A81", "U+1A82", "U+1A83", "U+1A84", "U+1A85", "U+1A86", "U+1A87",
    "U+1A88", "U+1A89", "U+1A90", "U+1A91", "U+1A92", "U+1A93", "U+1A94",
    "U+1A95", "U+1A96", "U+1A97", "U+1A98", "U+1A99", "U+1B50", "U+1B51",
    "U+1B52", "U+1B53", "U+1B54", "U+1B55", "U+1B56", "U+1B57", "U+1B58",
    "U+1B59", "U+1BB0", "U+1BB1", "U+1BB2", "U+1BB3", "U+1BB4", "U+1BB5",
    "U+1BB6", "U+1BB7", "U+1BB8", "U+1BB9", "U+1C40", "U+1C41", "U+1C42",
    "U+1C43", "U+1C44", "U+1C45", "U+1C46", "U+1C47", "U+1C48", "U+1C49",
    "U+1C50", "U+1C51", "U+1C52", "U+1C53", "U+1C54", "U+1C55", "U+1C56",
    "U+1C57", "U+1C58", "U+1C59", "U+2070", "U+2074", "U+2075", "U+2076",
    "U+2077", "U+2078", "U+2079", "U+2080", "U+2081", "U+2082", "U+2083",
    "U+2084", "U+2085", "U+2086", "U+2087", "U+2088", "U+2089", "U+2460",
    "U+2461", "U+2462", "U+2463", "U+2464", "U+2465", "U+2466", "U+2467",
    "U+2468", "U+2474", "U+2475", "U+2476", "U+2477", "U+2478", "U+2479",
    "U+247A", "U+247B", "U+247C", "U+2488", "U+2489", "U+248A", "U+248B",
    "U+248C", "U+248D", "U+248E", "U+248F", "U+2490", "U+24EA", "U+24F5",
    "U+24F6", "U+24F7", "U+24F8", "U+24F9", "U+24FA", "U+24FB", "U+24FC",
    "U+24FD", "U+24FF", "U+2776", "U+2777", "U+2778", "U+2779", "U+277A",
    "U+277B", "U+277C", "U+277D", "U+277E", "U+2780", "U+2781", "U+2782",
    "U+2783", "U+2784", "U+2785", "U+2786", "U+2787", "U+2788", "U+278A",
    "U+278B", "U+278C", "U+278D", "U+278E", "U+278F", "U+2790", "U+2791",
    "U+2792", "U+A620", "U+A621", "U+A622", "U+A623", "U+A624", "U+A625",
    "U+A626", "U+A627", "U+A628", "U+A629", "U+A8D0", "U+A8D1", "U+A8D2",
    "U+A8D3", "U+A8D4", "U+A8D5", "U+A8D6", "U+A8D7", "U+A8D8", "U+A8D9",
    "U+A900", "U+A901", "U+A902", "U+A903", "U+A904", "U+A905", "U+A906",
    "U+A907", "U+A908", "U+A909", "U+A9D0", "U+A9D1", "U+A9D2", "U+A9D3",
    "U+A9D4", "U+A9D5", "U+A9D6", "U+A9D7", "U+A9D8", "U+A9D9", "U+A9F0",
    "U+A9F1", "U+A9F2", "U+A9F3", "U+A9F4", "U+A9F5", "U+A9F6", "U+A9F7",
    "U+A9F8", "U+A9F9", "U+AA50", "U+AA51", "U+AA52", "U+AA53", "U+AA54",
    "U+AA55", "U+AA56", "U+AA57", "U+AA58", "U+AA59", "U+ABF0", "U+ABF1",
    "U+ABF2", "U+ABF3", "U+ABF4", "U+ABF5", "U+ABF6", "U+ABF7", "U+ABF8",
    "U+ABF9", "U+FF10", "U+FF11", "U+FF12", "U+FF13", "U+FF14", "U+FF15",
    "U+FF16", "U+FF17", "U+FF18", "U+FF19", "U+104A0", "U+104A1",
    "U+104A2", "U+104A3", "U+104A4", "U+104A5", "U+104A6", "U+104A7",
    "U+104A8", "U+104A9", "U+10A40", "U+10A41", "U+10A42", "U+10A43",
    "U+10D30", "U+10D31", "U+10D32", "U+10D33", "U+10D34", "U+10D35",
    "U+10D36", "U+10D37", "U+10D38", "U+10D39", "U+10E60", "U+10E61",
    "U+10E62", "U+10E63", "U+10E64", "U+10E65", "U+10E66", "U+10E67",
    "U+10E68", "U+11052", "U+11053", "U+11054", "U+11055", "U+11056",
    "U+11057", "U+11058", "U+11059", "U+1105A", "U+11066", "U+11067",
    "U+11068", "U+11069", "U+1106A", "U+1106B", "U+1106C", "U+1106D",
    "U+1106E", "U+1106F", "U+110F0", "U+110F1", "U+110F2", "U+110F3",
    "U+110F4", "U+110F5", "U+110F6", "U+110F7", "U+110F8", "U+110F9",
    "U+11136", "U+11137", "U+11138", "U+11139", "U+1113A", "U+1113B",
    "U+1113C", "U+1113D", "U+1113E", "U+1113F", "U+111D0", "U+111D1",
    "U+111D2", "U+111D3", "U+111D4", "U+111D5", "U+111D6", "U+111D7",
    "U+111D8", "U+111D9", "U+112F0", "U+112F1", "U+112F2", "U+112F3",
    "U+112F4", "U+112F5", "U+112F6", "U+112F7", "U+112F8", "U+112F9",
    "U+11450", "U+11451", "U+11452", "U+11453", "U+11454", "U+11455",
    "U+11456", "U+11457", "U+11458", "U+11459", "U+114D0", "U+114D1",
    "U+114D2", "U+114D3", "U+114D4", "U+114D5", "U+114D6", "U+114D7",
    "U+114D8", "U+114D9", "U+11650", "U+11651", "U+11652", "U+11653",
    "U+11654", "U+11655", "U+11656", "U+11657", "U+11658", "U+11659",
    "U+116C0", "U+116C1", "U+116C2", "U+116C3", "U+116C4", "U+116C5",
    "U+116C6", "U+116C7", "U+116C8", "U+116C9", "U+11730", "U+11731",
    "U+11732", "U+11733", "U+11734", "U+11735", "U+11736", "U+11737",
    "U+11738", "U+11739", "U+118E0", "U+118E1", "U+118E2", "U+118E3",
    "U+118E4", "U+118E5", "U+118E6", "U+118E7", "U+118E8", "U+118E9",
    "U+11950", "U+11951", "U+11952", "U+11953", "U+11954", "U+11955",
    "U+11956", "U+11957", "U+11958", "U+11959", "U+11C50", "U+11C51",
    "U+11C52", "U+11C53", "U+11C54", "U+11C55", "U+11C56", "U+11C57",
    "U+11C58", "U+11C59", "U+11D50", "U+11D51", "U+11D52", "U+11D53",
    "U+11D54", "U+11D55", "U+11D56", "U+11D57", "U+11D58", "U+11D59",
    "U+11DA0", "U+11DA1", "U+11DA2", "U+11DA3", "U+11DA4", "U+11DA5",
    "U+11DA6", "U+11DA7", "U+11DA8", "U+11DA9", "U+16A60", "U+16A61",
    "U+16A62", "U+16A63", "U+16A64", "U+16A65", "U+16A66", "U+16A67",
    "U+16A68", "U+16A69", "U+16AC0", "U+16AC1", "U+16AC2", "U+16AC3",
    "U+16AC4", "U+16AC5", "U+16AC6", "U+16AC7", "U+16AC8", "U+16AC9",
    "U+16B50", "U+16B51", "U+16B52", "U+16B53", "U+16B54", "U+16B55",
    "U+16B56", "U+16B57", "U+16B58", "U+16B59", "U+1D7CE", "U+1D7CF",
    "U+1D7D0", "U+1D7D1", "U+1D7D2", "U+1D7D3", "U+1D7D4", "U+1D7D5",
    "U+1D7D6", "U+1D7D7", "U+1D7D8", "U+1D7D9", "U+1D7DA", "U+1D7DB",
    "U+1D7DC", "U+1D7DD", "U+1D7DE", "U+1D7DF", "U+1D7E0", "U+1D7E1",
    "U+1D7E2", "U+1D7E3", "U+1D7E4", "U+1D7E5", "U+1D7E6", "U+1D7E7",
    "U+1D7E8", "U+1D7E9", "U+1D7EA", "U+1D7EB", "U+1D7EC", "U+1D7ED",
    "U+1D7EE", "U+1D7EF", "U+1D7F0", "U+1D7F1", "U+1D7F2", "U+1D7F3",
    "U+1D7F4", "U+1D7F5", "U+1D7F6", "U+1D7F7", "U+1D7F8", "U+1D7F9",
    "U+1D7FA", "U+1D7FB", "U+1D7FC", "U+1D7FD", "U+1D7FE", "U+1D7FF",
    "U+1E140", "U+1E141", "U+1E142", "U+1E143", "U+1E144", "U+1E145",
    "U+1E146", "U+1E147", "U+1E148", "U+1E149", "U+1E2F0", "U+1E2F1",
    "U+1E2F2", "U+1E2F3", "U+1E2F4", "U+1E2F5", "U+1E2F6", "U+1E2F7",
    "U+1E2F8", "U+1E2F9", "U+1E950", "U+1E951", "U+1E952", "U+1E953",
    "U+1E954", "U+1E955", "U+1E956", "U+1E957", "U+1E958", "U+1E959",
    "U+1F100", "U+1F101", "U+1F102", "U+1F103", "U+1F104", "U+1F105",
    "U+1F106", "U+1F107", "U+1F108", "U+1F109", "U+1F10A", "U+1FBF0",
    "U+1FBF1", "U+1FBF2", "U+1FBF3", "U+1FBF4", "U+1FBF5", "U+1FBF6",
    "U+1FBF7", "U+1FBF8", "U+1FBF9" }

\* str.isdigit(): non-empty and every character a digit.
IsDigit(str) == Len(str) > 0 /\ \A k \in 1..Len(str) : str[k] \in Digits

\* The characters c with c.isspace(), which str.strip() removes.
Whitespace == {
    "\t", "\n", "", "\f", "\r", "", "", "", "", " ", "", " ",
    "U+1680", "U+2000", "U+2001", "U+2002", "U+2003", "U+2004",
    "U+2005", "U+2006", "U+2007", "U+2008", "U+2009", "U+200A",
    "U+2028", "U+2029", "U+202F", "U+205F", "U+3000" }

RECURSIVE LStrip(_)
LStrip(str) ==
    IF Len(str) > 0 /\ Head(str) \in Whitespace THEN LStrip(Tail(str)) ELSE str

RECURSIVE RStrip(_)
RStrip(str) ==
    IF Len(str) > 0 /\ str[Len(str)] \in Whitespace
    THEN RStrip(SubSeq(str, 1, Len(str) - 1))
    ELSE str

\* str.strip()
Strip(str) == RStrip(LStrip(str))

\* Index of the first occurrence of character c in str, 0 if there is none.
FirstIndex(str, c) ==
    IF Contains(str, c)
    THEN CHOOSE k \in 1..Len(str) :
            str[k] = c /\ \A j \in 1..(k - 1) : str[j] # c
    ELSE 0

\* str.split(c) for a one-character separator: always at least one piece.
RECURSIVE Split(_, _)
Split(str, c) ==
    LET k == FirstIndex(str, c)
    IN  IF k = 0 THEN <<str>>
        ELSE <<SubSeq(str, 1, k - 1)>> \o Split(SubSeq(str, k + 1, Len(str)), c)

\* sep.join(parts)
RECURSIVE Join(_, _)
Join(parts, sep) ==
    IF Len(parts) = 0 THEN <<>>
    ELSE IF Len(parts) = 1 THEN parts[1]
    ELSE parts[1] \o sep \o Join(Tail(parts), sep)

\* A replace that stops after the first occurrence.
ReplaceFirstChar(str, c, repl) ==
    LET k == FirstIndex(str, c)
    IN  IF k = 0 THEN str
        ELSE SubSeq(str, 1, k - 1) \o repl \o SubSeq(str, k + 1, Len(str))

\* str.replace(c, repl) for a one-character c.
RECURSIVE ReplaceChar(_, _, _)
ReplaceChar(str, c, repl) ==
    IF Len(str) = 0 THEN <<>>
    ELSE (IF Head(str) = c THEN repl ELSE <<Head(str)>>)
         \o ReplaceChar(Tail(str), c, repl)

\* '__' in str
HasDoubleUnderscore(str) ==
    \E k \in 1..(Len(str) - 1) : str[k] = "_" /\ str[k + 1] = "_"

\* str.replace('__', '_'): the non-overlapping occurrences, left to right.
RECURSIVE ReplaceDoubleUnderscore(_)
ReplaceDoubleUnderscore(str) ==
    IF Len(str) < 2 THEN str
    ELSE IF str[1] = "_" /\ str[2] = "_"
         THEN <<"_">> \o ReplaceDoubleUnderscore(SubSeq(str, 3, Len(str)))
         ELSE <<Head(str)>> \o ReplaceDoubleUnderscore(Tail(str))

----------------------------------------------------------------------------
(* parse_problem_description                                               *)

\* The scan made to stop one character late.
RECURSIVE DigitScanOffByOne(_, _)
DigitScanOffByOne(subsection_stuff, i) ==
    IF IsDigit(Prefix(subsection_stuff, i))
    THEN IF i >= Len(subsection_stuff) THEN 0
         ELSE DigitScanOffByOne(subsection_stuff, i + 1)
    ELSE i + 1

\* The while loop of lines 50-52, entered with counter i: the value of i
\* when the loop exits.  Once i has reached len(subsection_stuff) the
\* slice subsection_stuff[:i] no longer changes, so a test that still
\* succeeds there succeeds for ever: the loop does not exit, which is
\* reported as 0 (an exit always leaves i >= 1).
RECURSIVE DigitScan(_, _)
DigitScan(subsection_stuff, i) ==
    IF IsDigit(Prefix(subsection_stuff, i))
    THEN IF i >= Len(subsection_stuff) THEN 0
         ELSE DigitScan(subsection_stuff, i + 1)
    ELSE i

\* A title that keeps only the text up to the second comma.
SubsectionTitleFirstPiece(comma_split) ==
    IF Len(comma_split) > 1 THEN Strip(comma_split[2]) ELSE <<>>

\* The title: everything after the first comma, re-joined and stripped.
SubsectionTitle(comma_split) == Strip(Join(Tail(comma_split), <<",">>))

\* Line 57.
fully_qual_sect(chapter_no, section_no) == chapter_no \o <<".">> \o section_no

\* A subsection string that leaves the section number out.
fully_qual_subsect_no_section(chapter_no, section_no, subsection_letter) ==
    chapter_no \o <<".">> \o subsection_letter

\* Line 58.
fully_qual_subsect(chapter_no, section_no, subsection_letter) ==
    chapter_no \o <<".">> \o section_no \o subsection_letter

\* The outcome of parse_problem_description(desc): the returned triple, the
\* ValueError of the two-name unpacking of line 46, or no return at all.
parse_problem_description(desc) ==
    LET comma_split == Split(desc, ",")
        section_stuff == comma_split[1]
        subsection_title == SubsectionTitle(comma_split)
        dot_split == Split(section_stuff, ".")
    IN  IF Len(dot_split) # 2 THEN [status |-> "ValueError"]
        ELSE
            LET chapter_no == dot_split[1]
                subsection_stuff == dot_split[2]
                i == DigitScan(subsection_stuff, 1)
            IN  IF i = 0 THEN [status |-> "diverges"]
                ELSE
                    LET section_no == Prefix(subsection_stuff, i - 1)
                        subsection_letter == Suffix(subsection_stuff, i - 1)
                    IN  [status |-> "returned",
                         sect |-> fully_qual_sect(chapter_no, section_no),
                         subsect |->
                            fully_qual_subsect(chapter_no, section_no,
                                               subsection_letter),
                         title |-> subsection_title]

----------------------------------------------------------------------------
(* validify                                                                *)

\* The table without its backslash entry.
ReplacementsNoBackslash == <<
    <<"/", <<"_">>>>, <<".", <<"_">>>>, <<"'", <<>>>>,
    <<" ", <<"_">>>>, <<",", <<"_">>>>, <<"\n", <<"_">>>>, <<"&", <<>>>>,
    <<"+", <<>>>>, <<"(", <<>>>>, <<")", <<>>>>, <<"~", <<>>>>,
    <<"*", <<>>>>, <<":", <<"_">>>>, <<"-", <<"_">>>> >>

\* The substitution table of lines 149-165, in the dict's (insertion) order.
Replacements == <<
    <<"/", <<"_">>>>, <<"\\", <<"_">>>>, <<".", <<"_">>>>, <<"'", <<>>>>,
    <<" ", <<"_">>>>, <<",", <<"_">>>>, <<"\n", <<"_">>>>, <<"&", <<>>>>,
    <<"+", <<>>>>, <<"(", <<>>>>, <<")", <<>>>>, <<"~", <<>>>>,
    <<"*", <<>>>>, <<":", <<"_">>>>, <<"-", <<"_">>>> >>

\* The for loop of lines 166-168 from table entry k on.
RECURSIVE ApplyReplacements(_, _, _)
ApplyReplacements(str, table, k) ==
    IF k > Len(table) THEN str
    ELSE ApplyReplacements(
            IF Contains(str, table[k][1])
            THEN ReplaceChar(str, table[k][1], table[k][2])
            ELSE str,
            table, k + 1)

\* The collapse done once (an if in place of the while).
CollapseUnderscoresOnce(str) ==
    IF HasDoubleUnderscore(str) THEN ReplaceDoubleUnderscore(str) ELSE str

\* The while loop of lines 171-172.
RECURSIVE CollapseUnderscores(_)
CollapseUnderscores(str) ==
    IF HasDoubleUnderscore(str)
    THEN CollapseUnderscores(ReplaceDoubleUnderscore(str))
    ELSE str

validify(str) == CollapseUnderscores(ApplyReplacements(str, Replacements, 1))

----------------------------------------------------------------------------
(* Dicts.                                                                  *)

EmptyDict == <<>>

\* d[k] = v
Put(d, k, v) == [x \in DOMAIN d \cup {k} |-> IF x = k THEN v ELSE d[x]]

----------------------------------------------------------------------------
(* is_starred                                                              *)

\* x in lst, for a list.
InList(lst, x) == \E k \in 1..Len(lst) : lst[k] = x

\* A classifier that only asks whether the row has a class attribute.
is_starred_any_class(attrs) == "class" \in DOMAIN attrs

\* attrs is the attrs dict of the row: the HTML parser stores the class
\* attribute as the list of the class names.
is_starred(attrs) ==
    "class" \in DOMAIN attrs /\ InList(attrs["class"], "starred")

----------------------------------------------------------------------------
(* parse_all_problems                                                      *)

\* The entry created for a new subsection, lines 89-95.
NewEntry(subsection_title) ==
    [title |-> subsection_title, probs |-> [starred |-> <<>>, extra |-> <<>>]]

\* An append that skips an id the list already holds.
AddProblemOnce(probs, is_star, problem_id) ==
    IF is_star
    THEN [probs EXCEPT !.starred =
            IF InList(@, problem_id) THEN @ ELSE Append(@, problem_id)]
    ELSE [probs EXCEPT !.extra =
            IF InList(@, problem_id) THEN @ ELSE Append(@, problem_id)]

\* An append that puts the id in both lists.
AddProblemBoth(probs, is_star, problem_id) ==
    [probs EXCEPT !.starred = Append(@, problem_id),
                  !.extra = Append(@, problem_id)]

\* Lines 99-102: the id is appended to one of the two lists.
AddProblem(probs, is_star, problem_id) ==
    IF is_star
    THEN [probs EXCEPT !.starred = Append(@, problem_id)]
    ELSE [probs EXCEPT !.extra = Append(@, problem_id)]

\* Lines 86-102 for one row whose description parsed to r.
AddRow(probs_by_sect, row, r) ==
    LET p1 == IF r.sect \notin DOMAIN probs_by_sect
              THEN Put(probs_by_sect, r.sect, EmptyDict)
              ELSE probs_by_sect
        p2 == IF r.subsect \notin DOMAIN p1[r.sect]
              THEN Put(p1, r.sect,
                       Put(p1[r.sect], r.subsect, NewEntry(r.title)))
              ELSE p1
        entry == p2[r.sect][r.subsect]
        probs == AddProblem(entry.probs, is_starred(row.attrs), row.id)
    IN  Put(p2, r.sect,
            Put(p2[r.sect], r.subsect, [entry EXCEPT !.probs = probs]))

\* parse_all_problems on a whole table whose descriptions all parse: the
\* loop of lines 76-102 from the mapping acc on.
RECURSIVE ParseRows(_, _)
ParseRows(table, acc) ==
    IF Len(table) = 0 THEN acc
    ELSE ParseRows(Tail(table),
                   AddRow(acc, Head(table),
                          parse_problem_description(Head(table).desc)))

----------------------------------------------------------------------------
(* get_book_json: the merge of the two judges' mappings of one chapter.    *)

\* A dict literal of one key.
Dict1(k, v) == [x \in {k} |-> v]

\* A dict with the keys of both, the entries of d2 winning.
Update(d1, d2) ==
    [x \in DOMAIN d1 \cup DOMAIN d2 |-> IF x \in DOMAIN d2 THEN d2[x] ELSE d1[x]]

\* A merged entry that forgets the kattis lists of a subsection both
\* judges have.
MergedEntryDropsKattis(uva, kattis, section, subsection) ==
    IF subsection \notin DOMAIN uva[section]
    THEN Update(Dict1("title", kattis[section][subsection].title),
                Dict1("kattis", kattis[section][subsection].probs))
    ELSE Update(Dict1("title", uva[section][subsection].title),
                Dict1("uva", uva[section][subsection].probs))

\* A merged entry that takes the kattis title whenever kattis has the
\* subsection.
MergedEntryKattisTitle(uva, kattis, section, subsection) ==
    IF subsection \notin DOMAIN kattis[section]
    THEN Update(Dict1("title", uva[section][subsection].title),
                Dict1("uva", uva[section][subsection].probs))
    ELSE IF subsection \notin DOMAIN uva[section]
    THEN Update(Dict1("title", kattis[section][subsection].title),
                Dict1("kattis", kattis[section][subsection].probs))
    ELSE Update(Update(Dict1("title", kattis[section][subsection].title),
                       Dict1("uva", uva[section][subsection].probs)),
                Dict1("kattis", kattis[section][subsection].probs))

\* Lines 273-288: the entry of a subsection some judge has under section.
MergedEntry(uva, kattis, section, subsection) ==
    IF subsection \notin DOMAIN uva[section]
    THEN Update(Dict1("title", kattis[section][subsection].title),
                Dict1("kattis", kattis[section][subsection].probs))
    ELSE IF subsection \notin DOMAIN kattis[section]
    THEN Update(Dict1("title", uva[section][subsection].title),
                Dict1("uva", uva[section][subsection].probs))
    ELSE Update(Update(Dict1("title", uva[section][subsection].title),
                       Dict1("uva", uva[section][subsection].probs)),
                Dict1("kattis", kattis[section][subsection].probs))

\* Lines 272-288: the subsections of a section both judges have.
MergedSection(uva, kattis, section) ==
    [subsection \in DOMAIN uva[section] \cup DOMAIN kattis[section] |->
        MergedEntry(uva, kattis, section, subsection)]

----------------------------------------------------------------------------
(* Dicts whose iteration order matters: sequences of <<key, value>> pairs  *)
(* in insertion order.                                                     *)

OKeys(d) == {d[i][1] : i \in 1..Len(d)}

\* d[k], for a key d has.
OGet(d, k) == d[CHOOSE i \in 1..Len(d) : d[i][1] = k][2]

\* d[k] = v: in place for a key d has, at the end for a new key.
OSet(d, k, v) ==
    IF k \in OKeys(d)
    THEN [i \in 1..Len(d) |-> IF d[i][1] = k THEN <<k, v>> ELSE d[i]]
    ELSE Append(d, <<k, v>>)

\* d without key k (what d.pop(k) leaves).
ODel(d, k) ==
    LET keep(e) == e[1] # k IN SelectSeq(d, keep)

----------------------------------------------------------------------------
(* get_formatted_problem_info                                              *)

\* Lines 193-197: the output entry of one subsection.
FormattedEntry(section_stuff) ==
    LET e0 == EmptyDict
        e1 == IF "uva" \in DOMAIN section_stuff
              THEN Put(e0, "uva", section_stuff["uva"]) ELSE e0
    IN  IF "kattis" \in DOMAIN section_stuff
        THEN Put(e1, "kattis", section_stuff["kattis"]) ELSE e1

\* Line 192: the output key of subsection section with title section_title.
NewSectionTitle(section, section_title) ==
    validify(Join(<<section, section_title>>, <<" ">>))

\* The for loop of lines 190-197 from item i of section_root on.
RECURSIVE FormatFrom(_, _, _)
FormatFrom(root, i, out) ==
    IF i > Len(root) THEN out
    ELSE LET section == root[i][1]
             section_stuff == root[i][2]
             new_section_title ==
                 NewSectionTitle(section, section_stuff["title"])
         IN  FormatFrom(root, i + 1,
                        Put(out, new_section_title,
                            FormattedEntry(section_stuff)))

get_formatted_problem_info(root) == FormatFrom(root, 1, EmptyDict)

----------------------------------------------------------------------------
(* reformat_book_json                                                      *)

\* Line 254: f'ch{chapter}'.
ChapterStr(n) ==
    <<"c", "h", <<"1", "2", "3", "4", "5", "6", "7", "8", "9">>[n]>>

\* Line 253: range(1,10) ends with chapter 9.
LastChapter == 9

Ch4 == <<"c", "h", "4">>
Ch9 == <<"c", "h", "9">>
Sect45 == <<"4", ".", "5">>
Sect9 == <<"9", ".">>
Sub9c == <<"9", ".", "c">>
Sub9d == <<"9", ".", "d">>

\* book_section_names.json, the lookup table read at lines 205-208: for each
\* chapter its title and the new name of each of its sections (of each of
\* its letter-coded subsections, for chapter 9).  The other chapters have a
\* title and no section here.
chapter_info ==
    [ch \in {ChapterStr(n) : n \in 1..LastChapter} |->
        IF ch = Ch4
        THEN [title |-> <<"G", "r", "a", "p", "h">>,
              sections |-> Dict1(Sect45,
                    <<"4", ".", "5", " ", "A", "l", "l", "-", "P", "a",
                      "i", "r", "s", " ", "S", "h", "o", "r", "t", "e",
                      "s", "t", " ", "P", "a", "t", "h", "s", " ", "(",
                      "A", "P", "S", "P", ")">>)]
        ELSE IF ch = Ch9
        THEN [title |-> <<"R", "a", "r", "e">>,
              sections |-> [k \in {Sub9c, Sub9d} |->
                              IF k = Sub9c THEN <<"9", ".", "1">>
                                           ELSE <<"9", ".", "2">>]]
        ELSE [title |-> <<"T">>, sections |-> EmptyDict]]

\* The for loop of lines 215-218 over the snapshot keys of the chapter-9
\* dict d, from key i on, with lookup table sections: [status, d].  The
\* snapshot holds each key of d once; a key an earlier iteration has
\* overwritten is still in d when its turn comes.
RECURSIVE RenameSections(_, _, _, _)
RenameSections(sections, d, keys, i) ==
    IF i > Len(keys) THEN [status |-> "ok", d |-> d]
    ELSE LET section == keys[i]
             section_info == OGet(d, section)
             popped == ODel(d, section)
         IN  IF section \notin DOMAIN sections
             THEN [status |-> "KeyError", d |-> popped]
             ELSE RenameSections(sections,
                                 OSet(popped, sections[section], section_info),
                                 keys, i + 1)

\* list(d): the snapshot of the keys of line 215.
KeyList(d) == [i \in 1..Len(d) |-> d[i][1]]

\* The loop with the lookup table of the program.
RenameCh9(d, keys, i) ==
    RenameSections(chapter_info[Ch9].sections, d, keys, i)

\* Lines 236-238: the sections of a chapter other than chapter 9.  The
\* normalized section titles of the lookup table are distinct, so no two
\* sections share an output key.
FormattedChapter(ch_sections, chapter_stuff) ==
    [new_section_title \in
        {validify(ch_sections[section]) : section \in DOMAIN chapter_stuff}
     |->
        LET section == CHOOSE sec \in DOMAIN chapter_stuff :
                          validify(ch_sections[sec]) = new_section_title
        IN  get_formatted_problem_info(chapter_stuff[section])]

\* Line 228.
ChapterFullName(chapter) ==
    validify(Join(<<chapter, chapter_info[chapter].title>>, <<" ">>))

\* Lines 221-240 on the book whose chapter 9 has been unwrapped and
\* renamed to ch9.
NewBookJson(book, ch9) ==
    IF \E chapter \in DOMAIN book :
          \/ chapter \notin DOMAIN chapter_info
          \/ /\ chapter # Ch9
             /\ \E section \in DOMAIN book[chapter] :
                   section \notin DOMAIN chapter_info[chapter].sections
    THEN [status |-> "KeyError"]
    ELSE [status |-> "returned",
          tree |->
            [chapter_full_name \in {ChapterFullName(c) : c \in DOMAIN book}
             |->
                LET chapter == CHOOSE c \in DOMAIN book :
                                  ChapterFullName(c) = chapter_full_name
                IN  IF chapter = Ch9
                    THEN get_formatted_problem_info(ch9)
                    ELSE FormattedChapter(chapter_info[chapter].sections,
                                          book[chapter])]]

\* The outcome of reformat_book_json(book): the returned tree, or the
\* KeyError of a missing key (lines 211, 217, 223 and 237).
reformat_book_json(book) ==
    IF Ch9 \notin DOMAIN book THEN [status |-> "KeyError"]
    ELSE IF Sect9 \notin DOMAIN book[Ch9] THEN [status |-> "KeyError"]
    ELSE LET ch_9_sections == book[Ch9][Sect9]
             keys == KeyList(ch_9_sections)
             renamed == RenameCh9(ch_9_sections, keys, 1)
         IN  IF renamed.status = "KeyError" THEN [status |-> "KeyError"]
             ELSE NewBookJson(book, renamed.d)

\* The dict book_json after the call reformat_book_json(book_json), which
\* changes its argument in place.  Line 211 raises before anything is
\* assigned; line 212 puts the dict of '9.' in the place of chapter 9, and
\* the loop of lines 215-218 renames the keys of that very dict, which at
\* the KeyError of line 217 has lost the key just popped.  Lines 221-238
\* only read book_json.
book_json_after(book) ==
    IF Ch9 \notin DOMAIN book THEN book
    ELSE IF Sect9 \notin DOMAIN book[Ch9] THEN book
    ELSE LET ch_9_sections == book[Ch9][Sect9]
             keys == KeyList(ch_9_sections)
             renamed == RenameCh9(ch_9_sections, keys, 1)
         IN  Put(book, Ch9, renamed.d)

----------------------------------------------------------------------------
(* Inputs.                                                                 *)

\* Characters of a locator: two digits, a letter and the dot.
LocatorAlphabet == {"4", "5", "a", "."}
\* Characters of the text after the first comma.
TitleAlphabet == {"T", " ", ",", "."}

\* What follows the locator of a description (a string without a comma):
\* nothing, or a comma and more text.
Rests ==
    {<<>>} \cup {<<",">> \o t : t \in StringsUpTo(TitleAlphabet, MaxTitle)}

\* Characters of a label: the fifteen of the substitution table, the
\* underscore and a letter.
LabelAlphabet ==
    {"/", "\\", ".", "'", " ", ",", "\n", "&", "+", "(", ")", "~", "*", ":",
     "-", "_", "a"}

\* The fixed words of the test of validify.
My == <<"m", "y">>
Test == <<"t", "e", "s", "t">>
MyTest == <<"m", "y", "_", "t", "e", "s", "t">>

\* A label is a run of characters, bare or between "my" and "test".
LabelFrames == {<<<<>>, <<>>>>, <<My, Test>>}

\* The class names a row may carry.
ClassNames == {"starred", "odd", "star", "Starred"}

\* The attrs of a row: with or without an id attribute, and without a class
\* attribute or with any list of class names.
TagAttrs ==
    {[a \in {} |-> <<>>], [a \in {"id"} |-> <<"r", "1">>]} \cup
    {[a \in {"class"} |-> cl] : cl \in StringsUpTo(ClassNames, MaxClasses)}
    \cup
    {[a \in {"class", "id"} |-> IF a = "class" THEN cl ELSE <<"r", "1">>] :
        cl \in StringsUpTo(ClassNames, MaxClasses)}

\* The rows of a problem table: the text of the first cell, the text of the
\* third cell and the attrs of the row.
RowDescs ==
    { <<"4", ".", "5", "a", ",", "X">>,
      <<"4", ".", "5", "a", ",", "Y">>,
      <<"4", ".", "5", "b", ",", " ", "Y">>,
      <<"9", ".", "c", ",", "Z">>,
      <<"4", ".", "5", ",", "X">>,
      <<"4", "5", "a", ",", "X">> }
RowAttrs ==
    { [a \in {} |-> <<>>],
      [a \in {"class"} |-> <<"starred">>] }
TableRows == [id : {"p1", "p2"}, desc : RowDescs, attrs : RowAttrs]

\* The rows of the tables of the two judges of one chapter.
JudgeRows ==
    { [id |-> "p1", desc |-> <<"4", ".", "5", "a", ",", "X">>,
       attrs |-> [a \in {"class"} |-> <<"starred">>]],
      [id |-> "p2", desc |-> <<"4", ".", "5", "a", ",", "Y">>,
       attrs |-> [a \in {} |-> <<>>]],
      [id |-> "p1", desc |-> <<"4", ".", "5", "b", ",", "X">>,
       attrs |-> [a \in {} |-> <<>>]],
      [id |-> "p2", desc |-> <<"4", ".", "6", "a", ",", "Y">>,
       attrs |-> [a \in {"class"} |-> <<"starred">>]] }

\* The {starred, extra} lists of a judge.
UvaProbs ==
    { [starred |-> <<"00821">>, extra |-> <<"00341", "00567">>],
      [starred |-> <<>>, extra |-> <<"00104">>] }
KattisProbs == { [starred |-> <<"allpairspath">>, extra |-> <<"slowleak">>] }

\* The titles of the subsections of the sample tree of the tests.
TitleStandard ==
    <<"A", "P", "S", "P", ",", " ", "S", "t", "a", "n", "d", "a", "r", "d">>
TitleVariants ==
    <<"A", "P", "S", "P", ",", " ", "V", "a", "r", "i", "a", "n", "t", "s">>

\* The merged entries of a subsection: a title, and for each judge its
\* lists or nothing.
SubsectionEntries ==
    {Update(Dict1("title", title), judges) :
        title \in {TitleStandard, TitleVariants},
        judges \in
            {EmptyDict} \cup {Dict1("uva", u) : u \in UvaProbs}
            \cup {Dict1("kattis", k) : k \in KattisProbs}
            \cup {Update(Dict1("uva", u), Dict1("kattis", k)) :
                    u \in UvaProbs, k \in KattisProbs}}

\* The subsection keys of one section: the last one is what the parser
\* returns for a description with a blank before its comma.
SubsectionKeys ==
    { <<"4", ".", "5", "a">>, <<"4", ".", "5", "b">>,
      <<"4", ".", "5", "a", " ">> }

\* The dicts of at most n subsections with keys in ks and entries in es, in
\* every insertion order.
OrderedDicts(ks, es, n) ==
    {d \in UNION {[1..k -> ks \X es] : k \in 0..n} :
        \A i, j \in 1..Len(d) : d[i][1] = d[j][1] => i = j}

\* The entries of the subsections of a whole book.
BookEntries ==
    { Update(Dict1("title", TitleStandard), Dict1("uva", u)) :
        u \in {[starred |-> <<"00821">>, extra |-> <<>>]} }
    \cup
    { Update(Update(Dict1("title", TitleVariants), Dict1("uva", u)),
             Dict1("kattis", k)) :
        u \in {[starred |-> <<"00821">>, extra |-> <<>>]},
        k \in KattisProbs }

\* The raw trees: chapter 4 and chapter 9, each absent, empty or with its
\* one section.
Books ==
    LET ch4s == {EmptyDict} \cup
                {Dict1(Sect45, root) :
                    root \in OrderedDicts({<<"4", ".", "5", "a">>,
                                           <<"4", ".", "5", "b">>},
                                          BookEntries, MaxSubsections)}
        ch9s == {EmptyDict} \cup
                {Dict1(Sect9, root) :
                    root \in OrderedDicts({Sub9c, Sub9d},
                                          BookEntries, MaxSubsections)}
    IN  {EmptyDict} \cup {Dict1(Ch4, c4) : c4 \in ch4s}
        \cup {Dict1(Ch9, c9) : c9 \in ch9s}
        \cup {Update(Dict1(Ch4, c4), Dict1(Ch9, c9)) :
                c4 \in ch4s, c9 \in ch9s}

----------------------------------------------------------------------------
(* The description parser as parse_all_problems calls it: on the           *)
(* description of the one row of a table, any description, and then the    *)
(* rest of the loop body for that row.                                     *)

\* The row the description belongs to.
ParsedRow(desc) == [id |-> "p1", desc |-> desc, attrs |-> EmptyDict]

InitParse ==
    /\ component = "parse"
    /\ pc = "ready"
    /\ IdleParse /\ IdleValidify /\ IdleStarred /\ IdleMerge
    /\ IdleFormat /\ IdleReformat
    /\ IdleScan /\ IdleFetch /\ IdleRename
    /\ rows = <<>> /\ problems = EmptyDict /\ rowStatus = "running"

\* Line 85.  An exception of the parser, or a loop that does not end, ends
\* the run of parse_all_problems there.
Parse ==
    /\ component = "parse"
    /\ pc = "ready"
    /\ \E k \in 0..MaxLocator, rest \in Rests :
          \E loc \in [1..k -> LocatorAlphabet] :
              /\ desc_str' = loc \o rest
              /\ parsed' = parse_problem_description(loc \o rest)
    /\ pc' = "done"
    /\ rowStatus' = IF parsed'.status = "returned" THEN "running"
                    ELSE parsed'.status
    /\ UNCHANGED <<component, validifyVars, starredVars, rows, problems,
                   mergeVars, formatVars, reformatVars,
                   scanVars, fetchVars, renameVars>>

\* Lines 86-104 for the row: the triple is used to file the row's id, and
\* the mapping is returned.
FileRow ==
    /\ component = "parse"
    /\ pc = "done"
    /\ parsed.status = "returned"
    /\ problems' = AddRow(problems, ParsedRow(desc_str), parsed)
    /\ rows' = Append(rows, ParsedRow(desc_str))
    /\ rowStatus' = "returned"
    /\ pc' = "filed"
    /\ UNCHANGED <<component, parseVars, validifyVars, starredVars,
                   mergeVars, formatVars, reformatVars,
                   scanVars, fetchVars, renameVars>>

NextParse == Parse \/ FileRow

SpecParse == InitParse /\ [][NextParse]_vars

(* The normalizer on its own: called once, on any label.                   *)

InitValidify ==
    /\ component = "validify"
    /\ pc = "ready"
    /\ IdleParse /\ IdleValidify /\ IdleStarred /\ IdleRows /\ IdleMerge
    /\ IdleFormat /\ IdleReformat
    /\ IdleScan /\ IdleFetch /\ IdleRename

Validify ==
    /\ component = "validify"
    /\ pc = "ready"
    /\ \E w \in LabelFrames, k \in 0..MaxLabel :
          \E run \in [1..k -> LabelAlphabet] :
              /\ s' = w[1] \o run \o w[2]
              /\ valid' = validify(w[1] \o run \o w[2])
    /\ pc' = "done"
    /\ UNCHANGED <<component, parseVars, starredVars, rowsVars, mergeVars,
                   formatVars, reformatVars,
                   scanVars, fetchVars, renameVars>>

NextValidify == Validify

SpecValidify == InitValidify /\ [][NextValidify]_vars

(* The row classifier on its own: called once, on any row.                 *)

InitStarred ==
    /\ component = "starred"
    /\ pc = "ready"
    /\ IdleParse /\ IdleValidify /\ IdleStarred /\ IdleRows /\ IdleMerge
    /\ IdleFormat /\ IdleReformat
    /\ IdleScan /\ IdleFetch /\ IdleRename

Classify ==
    /\ component = "starred"
    /\ pc = "ready"
    /\ \E attrs \in TagAttrs :
          /\ tag' = attrs
          /\ starred' = is_starred(attrs)
    /\ pc' = "done"
    /\ UNCHANGED <<component, parseVars, validifyVars, rowsVars, mergeVars,
                   formatVars, reformatVars,
                   scanVars, fetchVars, renameVars>>

NextStarred == Classify

SpecStarred == InitStarred /\ [][NextStarred]_vars

(* The table-to-mapping parser: one step per row of the table, then the    *)
(* return.                                                                 *)

InitRows ==
    /\ component = "rows"
    /\ pc = "ready"
    /\ rows = <<>>
    /\ problems = EmptyDict
    /\ rowStatus = "running"
    /\ IdleParse /\ IdleValidify /\ IdleStarred /\ IdleMerge
    /\ IdleFormat /\ IdleReformat
    /\ IdleScan /\ IdleFetch /\ IdleRename

\* One iteration of the for loop of lines 76-102.
ProcessRow ==
    /\ component = "rows"
    /\ rowStatus = "running"
    /\ Len(rows) < MaxRows
    /\ \E row \in TableRows :
          LET r == parse_problem_description(row.desc)
          IN  IF r.status = "returned"
              THEN /\ problems' = AddRow(problems, row, r)
                   /\ rows' = Append(rows, row)
                   /\ rowStatus' = "running"
              ELSE /\ rowStatus' = r.status
                   /\ UNCHANGED <<rows, problems,
                                  scanVars, fetchVars, renameVars>>
    /\ UNCHANGED <<component, pc, parseVars, validifyVars, starredVars,
                   mergeVars, formatVars, reformatVars,
                   scanVars, fetchVars, renameVars>>

\* Line 104, once the rows are exhausted.
ReturnProblems ==
    /\ component = "rows"
    /\ rowStatus = "running"
    /\ rowStatus' = "returned"
    /\ UNCHANGED <<component, pc, rows, problems,
                   parseVars, validifyVars, starredVars, mergeVars,
                   formatVars, reformatVars,
                   scanVars, fetchVars, renameVars>>

NextRows == ProcessRow \/ ReturnProblems

SpecRows == InitRows /\ [][NextRows]_vars

(* The judge merge of one chapter of get_book_json: lines 265-269, then    *)
(* one step per section of the for loop of line 270.                       *)

InitMerge ==
    /\ component = "merge"
    /\ pc = "ready"
    /\ uva_problems = EmptyDict /\ kattis_problems = EmptyDict
    /\ chapter_json = EmptyDict
    /\ todo = {}
    /\ mergeStatus = "parsing"
    /\ IdleParse /\ IdleValidify /\ IdleStarred /\ IdleRows
    /\ IdleFormat /\ IdleReformat
    /\ IdleScan /\ IdleFetch /\ IdleRename

\* Lines 265-270: both tables are parsed, the chapter's dict is created and
\* the loop over the union of the section keys begins.
ParseJudges ==
    /\ component = "merge"
    /\ mergeStatus = "parsing"
    /\ \E ku, kk \in 0..MaxJudgeRows :
          \E tu \in [1..ku -> JudgeRows], tk \in [1..kk -> JudgeRows] :
              /\ uva_problems' = ParseRows(tu, EmptyDict)
              /\ kattis_problems' = ParseRows(tk, EmptyDict)
    /\ chapter_json' = EmptyDict
    /\ todo' = DOMAIN uva_problems' \cup DOMAIN kattis_problems'
    /\ mergeStatus' = "merging"
    /\ UNCHANGED <<component, pc, parseVars, validifyVars, starredVars,
                   rowsVars, formatVars, reformatVars,
                   scanVars, fetchVars, renameVars>>

\* Lines 271-288 for one section, which a set's iteration yields in no
\* particular order.  Line 271 stores the empty dict, then line 272 reads
\* the section in both mappings and raises KeyError where it is missing.
MergeSection ==
    /\ component = "merge"
    /\ mergeStatus = "merging"
    /\ \E section \in todo :
          /\ todo' = todo \ {section}
          /\ IF section \in DOMAIN uva_problems
                /\ section \in DOMAIN kattis_problems
             THEN /\ chapter_json' =
                        Put(chapter_json, section,
                            MergedSection(uva_problems, kattis_problems,
                                          section))
                  /\ mergeStatus' = "merging"
             ELSE /\ chapter_json' = Put(chapter_json, section, EmptyDict)
                  /\ mergeStatus' = "KeyError"
    /\ UNCHANGED <<component, pc, uva_problems, kattis_problems,
                   parseVars, validifyVars, starredVars, rowsVars,
                   formatVars, reformatVars,
                   scanVars, fetchVars, renameVars>>

\* The for loop of line 270 has visited every section.
FinishMerge ==
    /\ component = "merge"
    /\ mergeStatus = "merging"
    /\ todo = {}
    /\ mergeStatus' = "merged"
    /\ UNCHANGED <<component, pc, uva_problems, kattis_problems,
                   chapter_json, todo,
                   parseVars, validifyVars, starredVars, rowsVars,
                   formatVars, reformatVars,
                   scanVars, fetchVars, renameVars>>

NextMerge == ParseJudges \/ MergeSection \/ FinishMerge

SpecMerge == InitMerge /\ [][NextMerge]_vars

(* The subsection renamer on its own: called once, on any section.        *)

InitFormat ==
    /\ component = "format"
    /\ pc = "ready"
    /\ IdleParse /\ IdleValidify /\ IdleStarred /\ IdleRows /\ IdleMerge
    /\ IdleFormat /\ IdleReformat
    /\ IdleScan /\ IdleFetch /\ IdleRename

FormatSection ==
    /\ component = "format"
    /\ pc = "ready"
    /\ \E root \in OrderedDicts(SubsectionKeys, SubsectionEntries,
                                MaxSubsections) :
          /\ section_root' = root
          /\ output' = get_formatted_problem_info(root)
    /\ pc' = "done"
    /\ UNCHANGED <<component, parseVars, validifyVars, starredVars, rowsVars,
                   mergeVars, reformatVars,
                   scanVars, fetchVars, renameVars>>

NextFormat == FormatSection

SpecFormat == InitFormat /\ [][NextFormat]_vars

(* The chapter/section renamer on its own: called once, on any raw tree.   *)

InitReformat ==
    /\ component = "reformat"
    /\ pc = "ready"
    /\ IdleParse /\ IdleValidify /\ IdleStarred /\ IdleRows /\ IdleMerge
    /\ IdleFormat /\ IdleReformat
    /\ IdleScan /\ IdleFetch /\ IdleRename

Reformat ==
    /\ component = "reformat"
    /\ pc = "ready"
    /\ \E book \in Books :
          /\ book_json' = book_json_after(book)
          /\ reformatted' = reformat_book_json(book)
    /\ pc' = "done"
    /\ UNCHANGED <<component, parseVars, validifyVars, starredVars, rowsVars,
                   mergeVars, formatVars,
                   scanVars, fetchVars, renameVars>>

NextReformat == Reformat

SpecReformat == InitReformat /\ [][NextReformat]_vars

(* The while loop of the description parser, one step per evaluation of    *)
(* its test.                                                               *)

\* Lines 41-46: the text after the dot of the locator of a description
\* whose locator has exactly one dot.
SubsectionStuff(desc) == Split(Split(desc, ",")[1], ".")[2]

\* Line 51: the test of the while loop.
ScanTest(desc, i) == IsDigit(Prefix(SubsectionStuff(desc), i))

\* Lines 53-60: the triple returned when the loop has exited with counter i.
ScanResult(desc, i) ==
    LET comma_split == Split(desc, ",")
        chapter_no == Split(comma_split[1], ".")[1]
        section_no == Prefix(SubsectionStuff(desc), i - 1)
        subsection_letter == Suffix(SubsectionStuff(desc), i - 1)
    IN  [status |-> "returned",
         sect |-> fully_qual_sect(chapter_no, section_no),
         subsect |->
            fully_qual_subsect(chapter_no, section_no, subsection_letter),
         title |-> SubsectionTitle(comma_split)]

\* The counter is followed exactly up to ScanCap.  No locator is that long,
\* so from there on subsection_stuff[:i] is the whole of subsection_stuff
\* and the test of the loop has the same value for every larger i: of a
\* larger i only the parity is kept, ScanCap + 1 standing for ScanCap + 1,
\* ScanCap + 3, ... and ScanCap for ScanCap + 2, ScanCap + 4, ...
ScanCap == MaxLocator + 1

\* i += 1 on the counter so represented.
NextCounter(i) == IF i <= ScanCap THEN i + 1 ELSE ScanCap

\* What follows the locator in the descriptions the loop is run on.
ScanRests == {<<>>, <<",", "\f", " ", "T", " ">>}

\* The characters of a locator the loop is run on: those of LocatorAlphabet
\* and a digit that is not a decimal digit.
ScanAlphabet == LocatorAlphabet \cup {"²"}

InitScan ==
    /\ component = "scan"
    /\ pc = "ready"
    /\ IdleParse /\ IdleValidify /\ IdleStarred /\ IdleRows /\ IdleMerge
    /\ IdleFormat /\ IdleReformat
    /\ IdleScan /\ IdleFetch /\ IdleRename

\* Lines 41-50: the splits, the unpacking of line 46 (ValueError unless the
\* locator has exactly one dot) and i = 1.
StartScan ==
    /\ component = "scan"
    /\ pc = "ready"
    /\ \E k \in 0..MaxLocator, rest \in ScanRests :
          \E loc \in [1..k -> ScanAlphabet] :
              /\ desc_str' = loc \o rest
              /\ IF Len(Split(loc, ".")) = 2
                 THEN /\ pc' = "scanning"
                      /\ scan_i' = 1
                      /\ parsed' = parsed
                 ELSE /\ pc' = "raised"
                      /\ scan_i' = scan_i
                      /\ parsed' = [status |-> "ValueError"]
    /\ UNCHANGED <<component, validifyVars, starredVars, rowsVars, mergeVars,
                   formatVars, reformatVars, fetchVars, renameVars>>

\* Lines 51-52: the test holds and i is incremented.
ScanStep ==
    /\ component = "scan"
    /\ pc = "scanning"
    /\ ScanTest(desc_str, scan_i)
    /\ scan_i' = NextCounter(scan_i)
    /\ UNCHANGED <<component, pc, parseVars, validifyVars, starredVars,
                   rowsVars, mergeVars, formatVars, reformatVars, fetchVars,
                   renameVars>>

\* Lines 51 and 53-60: the test fails, the loop exits and the function
\* returns.
ScanExit ==
    /\ component = "scan"
    /\ pc = "scanning"
    /\ ~ScanTest(desc_str, scan_i)
    /\ pc' = "exited"
    /\ parsed' = ScanResult(desc_str, scan_i)
    /\ UNCHANGED <<component, desc_str, scan_i, validifyVars, starredVars,
                   rowsVars, mergeVars, formatVars, reformatVars, fetchVars,
                   renameVars>>

NextScan == StartScan \/ ScanStep \/ ScanExit

\* The interpreter keeps running: a step that can be taken is taken.
SpecScan ==
    /\ InitScan /\ [][NextScan]_vars
    /\ WF_vars(StartScan) /\ WF_vars(ScanStep) /\ WF_vars(ScanExit)

(* get_book_json: the loop over the chapters, one step per request, one    *)
(* for the parse and merge of a chapter, one for the wait that follows,    *)
(* and one for the reformat and return.                                    *)

\* Line 128: response.ok, false exactly for the client and server error
\* codes 400-599.
ResponseOk(response) ==
    ~(400 <= response.status_code /\ response.status_code < 600)

\* A fetcher that hands the body back whatever the status.
get_chapter_html_unchecked(response) ==
    [status |-> "returned", text |-> response.text]

\* Lines 127-133 on the response the server gave.
get_chapter_html(response) ==
    IF ~ResponseOk(response)
    THEN [status |-> "InvalidRequestException"]
    ELSE [status |-> "returned", text |-> response.text]

\* The problem tables a page may hold: none, or one row of section 4.5 or
\* of chapter 9.
Pages ==
    { <<>>,
      << [id |-> "p1", desc |-> <<"4", ".", "5", "a", ",", "X">>,
          attrs |-> [a \in {"class"} |-> <<"starred">>]] >>,
      << [id |-> "p3", desc |-> <<"9", ".", "c", ",", "Z">>,
          attrs |-> [a \in {} |-> <<>>]] >> }

\* What the server may answer.
Responses == [status_code : {200, 404, 503}, text : Pages]

\* The entry of the log for a request and its response.
Fetch(n, online_judge, response) ==
    [chapter |-> ChapterStr(n), oj |-> online_judge,
     status_code |-> response.status_code]

\* The insertion orders a dict filled from the iteration of a set may have.
OrderingsOf(d) ==
    LET n == Cardinality(DOMAIN d)
    IN  {[k \in 1..n |-> <<o[k], d[o[k]]>>] :
            o \in {f \in [1..n -> DOMAIN d] :
                      \A a, b \in 1..n : f[a] = f[b] => a = b}}

\* Lines 269-288 for mappings with the same sections: the dicts
\* book_problem_json[chapter_str] may be, the subsections of each section in
\* one of the orders the set of line 272 may yield.
MergedChapters(uva, kattis) ==
    LET sections == DOMAIN uva \cup DOMAIN kattis
        orders(section) == OrderingsOf(MergedSection(uva, kattis, section))
    IN  {c \in [sections -> UNION {orders(section) : section \in sections}] :
            \A section \in sections : c[section] \in orders(section)}

\* Lines 269-272 for mappings one of which has a section the other lacks:
\* the dicts book_problem_json[chapter_str] may be when line 272 raises
\* KeyError.  The set of line 270 yields its sections in any order: the
\* sections of both judges that came before the failing one are merged,
\* and the failing one has the empty dict of line 271.
PartialChapters(uva, kattis) ==
    LET both == DOMAIN uva \cap DOMAIN kattis
        one_sided == (DOMAIN uva \cup DOMAIN kattis) \ both
        orders(section) == OrderingsOf(MergedSection(uva, kattis, section))
        before(visited) ==
            {c \in [visited -> UNION {orders(section) : section \in visited}] :
                \A section \in visited : c[section] \in orders(section)}
    IN  UNION {{Put(c, failing, EmptyDict) : c \in before(visited)} :
                  visited \in SUBSET both, failing \in one_sided}

InitFetch ==
    /\ component = "fetch"
    /\ pc = "uva"
    /\ chapter_num = 1
    /\ fetched = <<>>
    /\ uva_html = <<>> /\ kattis_html = <<>>
    /\ book_problem_json = EmptyDict
    /\ runStatus = "running"
    /\ IdleParse /\ IdleValidify /\ IdleStarred /\ IdleRows /\ IdleMerge
    /\ IdleFormat /\ IdleReformat
    /\ IdleScan /\ IdleRename

\* Line 259: the uva request of the chapter.
FetchUva ==
    /\ component = "fetch"
    /\ runStatus = "running"
    /\ pc = "uva"
    /\ \E response \in Responses :
          LET r == get_chapter_html(response)
          IN  /\ fetched' = Append(fetched, Fetch(chapter_num, "uva", response))
              /\ IF r.status = "returned"
                 THEN /\ uva_html' = r.text
                      /\ pc' = "kattis"
                      /\ runStatus' = runStatus
                 ELSE /\ runStatus' = r.status
                      /\ UNCHANGED <<uva_html, pc>>
    /\ UNCHANGED <<component, chapter_num, kattis_html, book_problem_json,
                   parseVars, validifyVars, starredVars, rowsVars, mergeVars,
                   formatVars, reformatVars, scanVars, renameVars>>

\* Line 261: the kattis request of the chapter.
FetchKattis ==
    /\ component = "fetch"
    /\ runStatus = "running"
    /\ pc = "kattis"
    /\ \E response \in Responses :
          LET r == get_chapter_html(response)
          IN  /\ fetched' =
                    Append(fetched, Fetch(chapter_num, "kattis", response))
              /\ IF r.status = "returned"
                 THEN /\ kattis_html' = r.text
                      /\ pc' = "merge"
                      /\ runStatus' = runStatus
                 ELSE /\ runStatus' = r.status
                      /\ UNCHANGED <<kattis_html, pc>>
    /\ UNCHANGED <<component, chapter_num, uva_html, book_problem_json,
                   parseVars, validifyVars, starredVars, rowsVars, mergeVars,
                   formatVars, reformatVars, scanVars, renameVars>>

\* Lines 265-288: both pages are parsed and merged into the tree; the wait
\* of line 292 comes next.  A section only one judge has ends the call with
\* the KeyError of line 272, the chapter's dict half built.
MergeChapter ==
    /\ component = "fetch"
    /\ runStatus = "running"
    /\ pc = "merge"
    /\ LET uva == ParseRows(uva_html, EmptyDict)
           kattis == ParseRows(kattis_html, EmptyDict)
       IN  IF DOMAIN uva = DOMAIN kattis
           THEN /\ \E c \in MergedChapters(uva, kattis) :
                      book_problem_json' =
                          Put(book_problem_json, ChapterStr(chapter_num), c)
                /\ runStatus' = runStatus
                /\ chapter_num' = chapter_num
                /\ pc' = "sleep"
           ELSE /\ \E c \in PartialChapters(uva, kattis) :
                      book_problem_json' =
                          Put(book_problem_json, ChapterStr(chapter_num), c)
                /\ runStatus' = "KeyError"
                /\ UNCHANGED <<chapter_num, pc>>
    /\ UNCHANGED <<component, fetched, uva_html, kattis_html,
                   parseVars, validifyVars, starredVars, rowsVars, mergeVars,
                   formatVars, reformatVars, scanVars, renameVars>>

\* Lines 292 and 253: the wait after a chapter is over and the loop goes on
\* to the next chapter, or ends after the last one.
SleepAfterChapter ==
    /\ component = "fetch"
    /\ runStatus = "running"
    /\ pc = "sleep"
    /\ IF chapter_num < LastChapter
       THEN chapter_num' = chapter_num + 1 /\ pc' = "uva"
       ELSE chapter_num' = chapter_num /\ pc' = "reformat"
    /\ UNCHANGED <<component, fetched, uva_html, kattis_html,
                   book_problem_json, runStatus,
                   parseVars, validifyVars, starredVars, rowsVars, mergeVars,
                   formatVars, reformatVars, scanVars, renameVars>>

\* Lines 296-297: the tree is reformatted and returned, unless
\* reformat_book_json raises.  The callee's book_json is the caller's
\* book_problem_json, one dict, changed in place by the call.
ReformatBook ==
    /\ component = "fetch"
    /\ runStatus = "running"
    /\ pc = "reformat"
    /\ book_json' = book_json_after(book_problem_json)
    /\ book_problem_json' = book_json_after(book_problem_json)
    /\ reformatted' = reformat_book_json(book_problem_json)
    /\ runStatus' = reformatted'.status
    /\ pc' = "done"
    /\ UNCHANGED <<component, chapter_num, fetched, uva_html, kattis_html,
                   parseVars, validifyVars, starredVars, rowsVars, mergeVars,
                   formatVars, scanVars, renameVars>>

NextFetch ==
    FetchUva \/ FetchKattis \/ MergeChapter \/ SleepAfterChapter \/ ReformatBook

SpecFetch == InitFetch /\ [][NextFetch]_vars

(* The chapter-9 step of reformat_book_json on its own: the unwrapped dict  *)
(* of chapter 9 and the lookup table are any dict and any injective table  *)
(* defined on the keys.                                                    *)

\* The letter-coded keys of chapter 9 and the names a table may give them.
Ch9Keys == {Sub9c, Sub9d, <<"9", ".", "e">>}
Ch9Names == Ch9Keys \cup {<<"9", ".", "1">>, <<"9", ".", "2">>}

\* The injective lookup tables defined on every key.
Ch9Tables ==
    {f \in [Ch9Keys -> Ch9Names] :
        \A a, b \in Ch9Keys : f[a] = f[b] => a = b}

InitRename ==
    /\ component = "rename"
    /\ pc = "ready"
    /\ IdleParse /\ IdleValidify /\ IdleStarred /\ IdleRows /\ IdleMerge
    /\ IdleFormat /\ IdleReformat
    /\ IdleScan /\ IdleFetch /\ IdleRename

\* Lines 211-218.
RenameChapter9 ==
    /\ component = "rename"
    /\ pc = "ready"
    /\ \E sections \in Ch9Tables,
          root \in OrderedDicts(Ch9Keys, BookEntries, MaxSubsections) :
          /\ ch9_table' = sections
          /\ ch9_sections' = root
          /\ ch9_renamed' = RenameSections(sections, root, KeyList(root), 1)
    /\ pc' = "done"
    /\ UNCHANGED <<component, parseVars, validifyVars, starredVars, rowsVars,
                   mergeVars, formatVars, reformatVars, scanVars, fetchVars>>

NextRename == RenameChapter9

SpecRename == InitRename /\ [][NextRename]_vars

----------------------------------------------------------------------------
Init ==
    \/ InitParse \/ InitValidify \/ InitStarred \/ InitRows \/ InitMerge
    \/ InitFormat \/ InitReformat \/ InitScan \/ InitFetch \/ InitRename

Next ==
    \/ Parse \/ FileRow \/ Validify \/ Classify
    \/ ProcessRow \/ ReturnProblems
    \/ ParseJudges \/ MergeSection \/ FinishMerge
    \/ FormatSection \/ Reformat
    \/ StartScan \/ ScanStep \/ ScanExit
    \/ FetchUva \/ FetchKattis \/ MergeChapter \/ SleepAfterChapter
    \/ ReformatBook
    \/ RenameChapter9

Spec == Init /\ [][Next]_vars

----------------------------------------------------------------------------
(* The description parser: C1, C10.                                        *)

Letters == {"a", "b", "c"}
DecimalDigits == {"0", "1", "2", "3", "4", "5", "6", "7", "8", "9"}

\* Where character c stands in d.
Places(d, c) == {k \in 1..Len(d) : d[k] = c}

\* d is C "." S L "," rest with the dot at p, S ending at q and the first
\* comma at r: C and S non-empty runs of decimal digits, L a non-empty
\* letter run.
WellFormedAt(d, p, q, r) ==
    /\ 1 < p /\ p < q /\ q < r - 1 /\ r <= Len(d)
    /\ d[p] = "." /\ d[r] = ","
    /\ \A k \in 1..(p - 1) : d[k] \in DecimalDigits
    /\ \A k \in (p + 1)..q : d[k] \in DecimalDigits
    /\ \A k \in (q + 1)..(r - 1) : d[k] \in Letters

\* C1: for every well-formed description "C.SL, Title" the parser returns
\* exactly ("C.S", "C.SL", Title stripped), the title being everything after
\* the first comma with its embedded commas preserved.
C1_WellFormedParse ==
    (component = "parse" /\ pc = "done") =>
        \A p \in Places(desc_str, "."), r \in Places(desc_str, ",") :
            \A q \in (p + 1)..(r - 2) :
                WellFormedAt(desc_str, p, q, r) =>
                    /\ parsed.status = "returned"
                    /\ parsed.sect = SubSeq(desc_str, 1, q)
                    /\ parsed.subsect = SubSeq(desc_str, 1, r - 1)
                    /\ parsed.title =
                          Strip(SubSeq(desc_str, r + 1, Len(desc_str)))

\* A well-formed description whose title holds a comma and surrounding
\* blanks has been parsed.
C1_Witness ==
    /\ component = "parse" /\ pc = "done"
    /\ desc_str = <<"4", ".", "5", "a", ",", " ", ",", ".">>
    /\ parsed.title = <<",", ".">>

\* d is C "." R with a non-empty C, the dot at p and the first comma (or the end of d)
\* right after position e, where R holds no dot and starts with a non-digit.
ZeroDigitAt(d, p, e) ==
    /\ 1 < p /\ p < e /\ e <= Len(d)
    /\ d[p] = "."
    /\ \A k \in 1..e : d[k] # "," /\ (d[k] = "." => k = p)
    /\ e = Len(d) \/ d[e + 1] = ","
    /\ d[p + 1] \notin Digits

\* C10 as stated: a description whose remainder starts with a non-digit is
\* a fatal format error: the parser returns no triple for it and the run
\* is not continued with such a row.
C10_ZeroDigitsIsError ==
    (component = "parse" /\ pc # "ready") =>
        \A p \in Places(desc_str, "."), e \in 1..Len(desc_str) :
            ZeroDigitAt(desc_str, p, e) =>
                /\ parsed.status # "returned"
                /\ rowStatus \notin {"running", "returned"}

\* C10 amended: for such a description the parser returns the triple whose
\* section is the chapter followed by "." (an empty section number), whose
\* subsection is the whole locator and whose title is the stripped rest,
\* and the run continues: the row's id is filed under that section and
\* subsection of the returned mapping.
C10_ZeroDigitsParse ==
    (component = "parse" /\ pc # "ready") =>
        \A p \in Places(desc_str, "."), e \in 1..Len(desc_str) :
            ZeroDigitAt(desc_str, p, e) =>
                LET sect == SubSeq(desc_str, 1, p)
                    sub == SubSeq(desc_str, 1, e)
                    title == Strip(SubSeq(desc_str, e + 2, Len(desc_str)))
                IN  /\ parsed.status = "returned"
                    /\ parsed.sect = sect
                    /\ parsed.subsect = sub
                    /\ parsed.title = title
                    /\ rowStatus \in {"running", "returned"}
                    /\ pc = "filed" =>
                          /\ DOMAIN problems = {sect}
                          /\ DOMAIN problems[sect] = {sub}
                          /\ problems[sect][sub].title = title
                          /\ problems[sect][sub].probs.extra = <<"p1">>

\* A row whose description has a letter right after the dot has been
\* parsed and filed under the section "5.".
C10_Witness ==
    /\ component = "parse" /\ pc = "filed"
    /\ desc_str = <<"5", ".", "a", "4", ",", "T">>
    /\ parsed.status = "returned"
    /\ parsed.sect = <<"5", ".">>
    /\ <<"5", ".">> \in DOMAIN problems

\* C12: whenever the parser returns, the returned subsection string begins
\* with the returned section string.
C12_SectionPrefixesSubsection ==
    (component = "parse" /\ pc # "ready" /\ parsed.status = "returned") =>
        /\ Len(parsed.sect) <= Len(parsed.subsect)
        /\ SubSeq(parsed.subsect, 1, Len(parsed.sect)) = parsed.sect

\* The parser has returned a section and a longer subsection for it.
C12_Witness ==
    /\ component = "parse" /\ pc = "done"
    /\ parsed.status = "returned"
    /\ parsed.sect = <<"4", ".", "5">>
    /\ parsed.subsect = <<"4", ".", "5", "a">>

----------------------------------------------------------------------------
(* The while loop of the description parser: C13.                          *)

\* The number of digits (characters of str.isdigit) the remainder of the
\* locator starts with.
RECURSIVE LeadingDigits(_)
LeadingDigits(str) ==
    IF Len(str) > 0 /\ Head(str) \in Digits
    THEN 1 + LeadingDigits(Tail(str))
    ELSE 0

\* The step-by-step loop and the operator DigitScan agree: the loop exits
\* with the triple parse_problem_description gives, and a loop whose test
\* still holds once i has passed the end of the remainder is one for which
\* parse_problem_description reports no return.
ScanAgreesWithParser ==
    component = "scan" =>
        /\ pc = "exited" => parsed = parse_problem_description(desc_str)
        /\ pc = "raised" => parsed = parse_problem_description(desc_str)
        /\ (/\ pc = "scanning"
            /\ scan_i > Len(SubsectionStuff(desc_str))
            /\ ScanTest(desc_str, scan_i))
           => parse_problem_description(desc_str).status = "diverges"

\* C13: for every description whose locator has exactly one '.', the digit
\* scan terminates, having stopped at the first non-digit character of the
\* remainder (or at its end when all of it is digits, or it is empty).
C13_ScanTerminates ==
    /\ [](component = "scan" /\ pc = "exited" =>
            scan_i = LeadingDigits(SubsectionStuff(desc_str)) + 1)
    /\ (component = "scan" /\ pc = "scanning") ~> (pc = "exited")

\* What the loop does: it exits, at the first non-digit character, exactly
\* when the remainder is empty or holds a non-digit character; on a
\* non-empty remainder of digits only its test holds for every i.
ScanTerminatesUnlessAllDigits ==
    /\ [](component = "scan" /\ pc = "exited" =>
            scan_i = LeadingDigits(SubsectionStuff(desc_str)) + 1)
    /\ (/\ component = "scan" /\ pc = "scanning"
        /\ ~IsDigit(SubsectionStuff(desc_str))) ~> (pc = "exited")
    /\ [](component = "scan" /\ pc = "scanning"
            /\ IsDigit(SubsectionStuff(desc_str))
          => [](pc = "scanning"))

----------------------------------------------------------------------------
(* The chapter loop of get_book_json: C11.                                 *)

\* The status codes of a request that did not succeed: the client errors
\* and the server errors.
NonSuccess(status_code) == 400 <= status_code /\ status_code < 600

\* C11: the requests are issued one after the other in the order (ch1,uva),
\* (ch1,kattis), (ch2,uva), ..., (ch9,kattis), each pair at most once; a
\* response with a non-success status ends the call with
\* InvalidRequestException: it is the last request issued (no later fetch,
\* no retry) and no tree is returned; a tree is returned only after all
\* eighteen requests have succeeded.
C11_FetchOrderAndAbort ==
    component = "fetch" =>
        /\ Len(fetched) <= 2 * LastChapter
        /\ \A k \in 1..Len(fetched) :
              /\ fetched[k].chapter = ChapterStr((k + 1) \div 2)
              /\ fetched[k].oj = (IF k % 2 = 1 THEN "uva" ELSE "kattis")
              /\ NonSuccess(fetched[k].status_code) =>
                    /\ k = Len(fetched)
                    /\ runStatus = "InvalidRequestException"
                    /\ reformatted.status = "none"
        /\ runStatus = "InvalidRequestException" =>
              /\ Len(fetched) > 0
              /\ NonSuccess(fetched[Len(fetched)].status_code)
        /\ runStatus = "returned" =>
              /\ Len(fetched) = 2 * LastChapter
              /\ reformatted.status = "returned"

\* The kattis request of chapter 2 has failed after three successful
\* requests and the merge of chapter 1: the call has ended there.
C11_Witness ==
    /\ component = "fetch"
    /\ runStatus = "InvalidRequestException"
    /\ Len(fetched) = 4
    /\ fetched[4] = [chapter |-> <<"c", "h", "2">>, oj |-> "kattis",
                     status_code |-> 503]
    /\ DOMAIN book_problem_json = {<<"c", "h", "1">>}
    /\ reformatted.status = "none"

\* A whole run has returned a tree.
FetchRunReturns ==
    /\ component = "fetch"
    /\ runStatus = "returned"
    /\ Len(fetched) = 2 * LastChapter

----------------------------------------------------------------------------
(* The chapter-9 rename loop: C14.                                         *)

\* After the loop the chapter holds one entry per original subsection, each
\* original entry under its renamed key.
RenamedExactly ==
    /\ ch9_renamed.status = "ok"
    /\ Len(ch9_renamed.d) = Len(ch9_sections)
    /\ \A i \in 1..Len(ch9_sections) :
          LET new_section_name == ch9_table[ch9_sections[i][1]]
          IN  /\ new_section_name \in OKeys(ch9_renamed.d)
              /\ OGet(ch9_renamed.d, new_section_name) = ch9_sections[i][2]

\* C14: for every injective rename table defined on all keys under '9.' the
\* loop loses no entry: the chapter ends with exactly one entry per original
\* subsection, each original entry stored under its table-renamed key.
C14_RenameLosesNothing ==
    (component = "rename" /\ pc = "done") => RenamedExactly

\* What the loop does: it loses no entry when no new name of a subsection is
\* the key of another subsection that is still to be renamed.
RenameKeepsDisjointNames ==
    (component = "rename" /\ pc = "done") =>
        ((\A i, j \in 1..Len(ch9_sections) :
              i < j => ch9_table[ch9_sections[i][1]] # ch9_sections[j][1])
         => RenamedExactly)

----------------------------------------------------------------------------
(* The row classifier: C9.                                                 *)

\* C9: is_starred(row) is true iff the row has a class attribute whose class
\* list contains "starred"; it is false for every row without a class
\* attribute and for every row whose class list lacks "starred".
C9_StarredIffClass ==
    (component = "starred" /\ pc = "done") =>
        /\ "class" \notin DOMAIN tag => ~starred
        /\ "class" \in DOMAIN tag =>
              (starred <=> \E k \in 1..Len(tag["class"]) :
                              tag["class"][k] = "starred")

\* A row whose class list holds "starred" after another class name has been
\* classified as starred.
C9_Witness ==
    /\ component = "starred" /\ pc = "done"
    /\ "class" \in DOMAIN tag
    /\ tag["class"] = <<"odd", "starred">>
    /\ starred

----------------------------------------------------------------------------
(* The table-to-mapping parser: C8.                                        *)

\* The ids of the rows of table that belong to subsection sub and are
\* starred (star = TRUE) or not (star = FALSE), one per row, in row order.
RECURSIVE IdsInRowOrder(_, _, _)
IdsInRowOrder(table, sub, star) ==
    IF Len(table) = 0 THEN <<>>
    ELSE LET row == Head(table)
             mine == /\ parse_problem_description(row.desc).subsect = sub
                     /\ is_starred(row.attrs) = star
         IN  (IF mine THEN <<row.id>> ELSE <<>>)
             \o IdsInRowOrder(Tail(table), sub, star)

\* C8: in the returned mapping each starred list and each extra list holds
\* the ids in the order of their rows, an id once for every row it occurs
\* in (no deduplication).
C8_RowOrderNoDedup ==
    (component = "rows" /\ rowStatus = "returned") =>
        \A sect \in DOMAIN problems : \A sub \in DOMAIN problems[sect] :
            /\ problems[sect][sub].probs.starred =
                  IdsInRowOrder(rows, sub, TRUE)
            /\ problems[sect][sub].probs.extra =
                  IdsInRowOrder(rows, sub, FALSE)

\* A mapping has been returned in which one list holds the same id twice,
\* around another id.
C8_Witness ==
    /\ component = "rows" /\ rowStatus = "returned"
    /\ \E sect \in DOMAIN problems : \E sub \in DOMAIN problems[sect] :
          problems[sect][sub].probs.starred = <<"p2", "p1", "p2">>

\* How many times x occurs in list lst.
RECURSIVE Count(_, _)
Count(lst, x) ==
    IF Len(lst) = 0 THEN 0
    ELSE (IF Head(lst) = x THEN 1 ELSE 0) + Count(Tail(lst), x)

\* The sum of f over the finite set S.
RECURSIVE Sum(_, _)
Sum(f, S) ==
    IF S = {} THEN 0
    ELSE LET x == CHOOSE y \in S : TRUE IN f[x] + Sum(f, S \ {x})

\* The number of ids in all the lists of mapping m.
TotalIds(m) ==
    Sum([sect \in DOMAIN m |->
            Sum([sub \in DOMAIN m[sect] |->
                    Len(m[sect][sub].probs.starred)
                    + Len(m[sect][sub].probs.extra)],
                DOMAIN m[sect])],
        DOMAIN m)

\* The rows of table that have id x, whose description parsed to
\* subsection sub (triples holds the parsed triple of each row) and that are
\* starred (star = TRUE) or not.
RowsLike(table, triples, x, sub, star) ==
    {k \in 1..Len(table) :
        /\ table[k].id = x
        /\ triples[k].subsect = sub
        /\ is_starred(table[k].attrs) = star}

\* C15: after any sequence of rows, each row's id has been appended once, to
\* the starred list if the row is starred and to the extra list otherwise,
\* of the entry of the section and subsection its description parses to:
\* each list holds an id as many times as there are such rows with that id,
\* the lists hold as many ids as there are rows, and the title of an entry
\* is the title parsed from the first row of its subsection.  (The @@ <<>>
\* leaves the function as it is and has it evaluated once.)
C15_RowsPartitioned ==
    (component = "rows" /\ rowStatus \in {"running", "returned"}) =>
        LET triples == [k \in 1..Len(rows) |->
                          parse_problem_description(rows[k].desc)] @@ <<>>
        IN  /\ TotalIds(problems) = Len(rows)
            /\ \A k \in 1..Len(rows) :
                  LET r == triples[k]
                      x == rows[k].id
                  IN  /\ r.sect \in DOMAIN problems
                      /\ r.subsect \in DOMAIN problems[r.sect]
                      /\ Count(problems[r.sect][r.subsect].probs.starred, x)
                            = Cardinality(RowsLike(rows, triples, x,
                                                   r.subsect, TRUE))
                      /\ Count(problems[r.sect][r.subsect].probs.extra, x)
                            = Cardinality(RowsLike(rows, triples, x,
                                                   r.subsect, FALSE))
                      /\ (\A j \in 1..(k - 1) :
                            triples[j].subsect # r.subsect)
                         => problems[r.sect][r.subsect].title = r.title

\* Three rows have been processed: two of one subsection with different
\* titles, the first one starred, and one of another section; the entry
\* keeps the first title.
C15_Witness ==
    /\ component = "rows" /\ rowStatus = "returned"
    /\ Len(rows) = 3
    /\ rows[1].desc = <<"4", ".", "5", "a", ",", "Y">>
    /\ rows[2].desc = <<"9", ".", "c", ",", "Z">>
    /\ rows[3].desc = <<"4", ".", "5", "a", ",", "X">>
    /\ problems[<<"4", ".", "5">>][<<"4", ".", "5", "a">>] =
          [title |-> <<"Y">>,
           probs |-> [starred |-> <<"p1">>, extra |-> <<"p2">>]]

----------------------------------------------------------------------------
(* The judge merge: C2, C6.                                                *)

\* The subsection keys mapping m has under section sect (none when it does
\* not have the section).
SubsectionsOf(m, sect) == IF sect \in DOMAIN m THEN DOMAIN m[sect] ELSE {}

\* C2: for any pair of per-judge mappings the merge completes, also when a
\* section occurs in only one of them, and yields a mapping whose section
\* keys are the union of both judges' section keys and whose subsection
\* keys under each section are the union of both judges' subsection keys.
C2_MergeIsUnion ==
    component = "merge" =>
        /\ mergeStatus # "KeyError"
        /\ mergeStatus = "merged" =>
              /\ DOMAIN chapter_json =
                    DOMAIN uva_problems \cup DOMAIN kattis_problems
              /\ \A sect \in DOMAIN chapter_json :
                    DOMAIN chapter_json[sect] =
                        SubsectionsOf(uva_problems, sect)
                            \cup SubsectionsOf(kattis_problems, sect)

\* C6: every subsection entry of the merged chapter mapping has a 'uva' key
\* iff the uva mapping has the subsection and a 'kattis' key iff the kattis
\* mapping has it, each holding that judge's {starred, extra} lists
\* unchanged.
C6_JudgeKeys ==
    component = "merge" =>
        \A sect \in DOMAIN chapter_json :
            \A sub \in DOMAIN chapter_json[sect] :
                LET entry == chapter_json[sect][sub]
                    inUva == sub \in SubsectionsOf(uva_problems, sect)
                    inKattis == sub \in SubsectionsOf(kattis_problems, sect)
                IN  /\ "uva" \in DOMAIN entry <=> inUva
                    /\ "kattis" \in DOMAIN entry <=> inKattis
                    /\ inUva => entry["uva"] = uva_problems[sect][sub].probs
                    /\ inKattis =>
                          entry["kattis"] = kattis_problems[sect][sub].probs

\* A chapter has been merged in which one subsection has both judges, with
\* different lists, and another subsection has one judge only.
C6_Witness ==
    /\ component = "merge" /\ mergeStatus = "merged"
    /\ \E sect \in DOMAIN chapter_json :
          \E sub1, sub2 \in DOMAIN chapter_json[sect] :
              /\ DOMAIN chapter_json[sect][sub1] = {"title", "uva", "kattis"}
              /\ chapter_json[sect][sub1]["uva"]
                    # chapter_json[sect][sub1]["kattis"]
              /\ DOMAIN chapter_json[sect][sub2] = {"title", "kattis"}

\* C16: the merge does not compare titles.  A subsection both judges have
\* gets the uva title, also when the kattis title differs, and a subsection
\* one judge has gets that judge's title; the merge never ends in an error
\* when both judges have the same sections, whatever the titles.
C16_TitleFromUva ==
    component = "merge" =>
        /\ \A sect \in DOMAIN chapter_json :
              \A sub \in DOMAIN chapter_json[sect] :
                  chapter_json[sect][sub]["title"] =
                      IF sub \in SubsectionsOf(uva_problems, sect)
                      THEN uva_problems[sect][sub].title
                      ELSE kattis_problems[sect][sub].title
        /\ mergeStatus = "KeyError" =>
              DOMAIN uva_problems # DOMAIN kattis_problems

\* A chapter has been merged in which both judges have subsection 4.5a, uva
\* with title X and kattis with title Y, and the merged title is X.
C16_Witness ==
    /\ component = "merge" /\ mergeStatus = "merged"
    /\ <<"4", ".", "5">> \in DOMAIN chapter_json
    /\ <<"4", ".", "5", "a">> \in DOMAIN chapter_json[<<"4", ".", "5">>]
    /\ <<"4", ".", "5", "a">> \in SubsectionsOf(uva_problems, <<"4", ".", "5">>)
    /\ <<"4", ".", "5", "a">>
          \in SubsectionsOf(kattis_problems, <<"4", ".", "5">>)
    /\ uva_problems[<<"4", ".", "5">>][<<"4", ".", "5", "a">>].title = <<"X">>
    /\ kattis_problems[<<"4", ".", "5">>][<<"4", ".", "5", "a">>].title
          = <<"Y">>
    /\ chapter_json[<<"4", ".", "5">>][<<"4", ".", "5", "a">>]["title"]
          = <<"X">>

\* A chapter has been merged in which only kattis has a subsection, and
\* the merged title is the kattis title.
MergedKattisOnlyTitle ==
    /\ component = "merge" /\ mergeStatus = "merged"
    /\ \E sect \in DOMAIN chapter_json :
          \E sub \in DOMAIN chapter_json[sect] :
              /\ sub \notin DOMAIN uva_problems[sect]
              /\ chapter_json[sect][sub]["title"]
                    = kattis_problems[sect][sub].title

----------------------------------------------------------------------------
(* The subsection renamer: C7.                                             *)

\* The output key the claim gives input subsection i: validify(k + " " + t),
\* written out: every character of the key and of the title that is a
\* separator becomes "_", runs of "_" are collapsed, the rest is kept.
ExpectedKey(i) ==
    LET k == section_root[i][1]
        title == section_root[i][2]["title"]
    IN  validify(k \o <<" ">> \o title)

\* Output entry out carries the judges of input entry in, with the same
\* lists, and nothing else.
SameJudges(out, in) ==
    /\ DOMAIN out = DOMAIN in \cap {"uva", "kattis"}
    /\ \A judge \in DOMAIN out : out[judge] = in[judge]

\* C7 as stated: every input subsection (k, t) has the output key
\* validify(k + " " + t), whose entry has a 'uva' key iff the input entry
\* has one and a 'kattis' key iff the input entry has one, each with the
\* input's lists, and no other keys.
C7_EverySubsectionKept ==
    (component = "format" /\ pc = "done") =>
        \A i \in 1..Len(section_root) :
            /\ ExpectedKey(i) \in DOMAIN output
            /\ SameJudges(output[ExpectedKey(i)], section_root[i][2])

\* What the code does instead: the output keys are the keys
\* validify(k + " " + t) of the input subsections, and the entry under each
\* is that of the last input subsection, in the dict's order, with that key.
LastSubsectionKept ==
    (component = "format" /\ pc = "done") =>
        /\ DOMAIN output = {ExpectedKey(i) : i \in 1..Len(section_root)}
        /\ \A i \in 1..Len(section_root) :
              (\A j \in (i + 1)..Len(section_root) :
                    ExpectedKey(j) # ExpectedKey(i))
              => SameJudges(output[ExpectedKey(i)], section_root[i][2])

----------------------------------------------------------------------------
(* The chapter/section renamer: C3.                                        *)

ChapterKeyGraph ==
    <<"c", "h", "4", "_", "G", "r", "a", "p", "h">>
SectionKeyAPSP ==
    <<"4", "_", "5", "_", "A", "l", "l", "_", "P", "a", "i", "r", "s", "_",
      "S", "h", "o", "r", "t", "e", "s", "t", "_", "P", "a", "t", "h", "s",
      "_", "A", "P", "S", "P">>

\* C3: a raw tree that holds only chapter ch4 is reformatted normally, to a
\* tree whose one top-level key is "ch4_Graph" with one key per input
\* section under it, "4_5_All_Pairs_Shortest_Paths_APSP" for section 4.5.
C3_Ch4OnlyReformats ==
    (component = "reformat" /\ pc = "done" /\ DOMAIN book_json = {Ch4}) =>
        /\ reformatted.status = "returned"
        /\ DOMAIN reformatted.tree = {ChapterKeyGraph}
        /\ DOMAIN reformatted.tree[ChapterKeyGraph] =
              {SectionKeyAPSP : sec \in DOMAIN book_json[Ch4]}

----------------------------------------------------------------------------
(* The normalizer: C4, C5.                                                 *)

\* C4: validify is idempotent and its output never holds two consecutive
\* underscores.
C4_Idempotent ==
    (component = "validify" /\ pc = "done") =>
        /\ validify(valid) = valid
        /\ \A k \in 1..(Len(valid) - 1) :
              ~(valid[k] = "_" /\ valid[k + 1] = "_")

\* A label with three separators in a row has been normalized to one
\* underscore.
C4_Witness ==
    /\ component = "validify" /\ pc = "done"
    /\ s = <<" ", "_", "/">>
    /\ valid = <<"_">>

\* The characters the substitution table maps to "_" and the underscore
\* itself, and the characters the table removes.
UnderscoreChars == {"/", "\\", ".", " ", ",", "\n", ":", "-", "_"}
RemovedChars == {"'", "&", "+", "(", ")", "~", "*"}

\* C5: "my" + R + "test", R a non-empty run of table characters and
\* underscores with at least one of them mapped to "_" (or a "_"), is
\* normalized to exactly "my_test".
C5_MyTest ==
    (component = "validify" /\ pc = "done") =>
        \A n \in 1..(Len(s) - Len(My) - Len(Test)) :
            LET run == SubSeq(s, Len(My) + 1, Len(My) + n)
            IN  (/\ s = My \o run \o Test
                 /\ \A k \in 1..n :
                        run[k] \in UnderscoreChars \cup RemovedChars
                 /\ \E k \in 1..n : run[k] \in UnderscoreChars)
                => valid = MyTest

\* "my & test" has been normalized to "my_test".
C5_Witness ==
    /\ component = "validify" /\ pc = "done"
    /\ s = My \o <<" ", "&", " ">> \o Test
    /\ valid = MyTest

\* Longest string on which each pair of substitutions is applied in both
\* orders.
MaxSwapLabel == 2

\* The table read backwards, and the table with its halves exchanged.
Reversed(table) == [k \in 1..Len(table) |-> table[Len(table) + 1 - k]]
Rotated(table, n) ==
    [k \in 1..Len(table) |-> table[((k + n - 1) % Len(table)) + 1]]

\* Other orders in which the whole table may be applied.
TableOrders == {Reversed(Replacements), Rotated(Replacements, 7)}

\* Any two substitutions of the table give the same string in either
\* order, whatever string they are applied to; so does then any reordering
\* of the table, which is a sequence of exchanges of neighbours.
SubstitutionsCommute ==
    \A str \in StringsUpTo(LabelAlphabet, MaxSwapLabel) :
        \A a, b \in 1..Len(Replacements) :
            ApplyReplacements(str, <<Replacements[a], Replacements[b]>>, 1)
            = ApplyReplacements(str, <<Replacements[b], Replacements[a]>>, 1)

\* str without the characters of set C.
Without(str, C) == LET keep(c) == c \notin C IN SelectSeq(str, keep)

\* The fifteen characters of the substitution table.
TableChars == (UnderscoreChars \ {"_"}) \cup RemovedChars

\* C17: the output of validify holds no character of the substitution
\* table, whatever the order in which the substitutions are applied (the
\* result is the same with the table in other orders, and any two
\* substitutions can be exchanged), and the characters that are neither in
\* the table nor "_" are kept as they are, in their order.
C17_NoTableChars ==
    (component = "validify" /\ pc = "done") =>
        /\ \A k \in 1..Len(valid) : valid[k] \notin TableChars
        /\ Without(valid, {"_"}) = Without(s, TableChars \cup {"_"})
        /\ \A table \in TableOrders :
              CollapseUnderscores(ApplyReplacements(s, table, 1)) = valid
        /\ SubstitutionsCommute

\* A label with a backslash, a quote and a letter has been normalized:
\* the backslash is an underscore, the quote is gone, the letter is kept.
C17_Witness ==
    /\ component = "validify" /\ pc = "done"
    /\ s = <<"\\", "'", "a">>
    /\ valid = <<"_", "a">>

====
